---- MODULE Spec2Model ----
(***************************************************************************)
(* Model of markdown-optimizer/scripts/optimize_markdown.py                *)
(* (class MarkdownOptimizer).                                              *)
(*                                                                         *)
(* A text is a sequence of one-character strings, "\n" included, exactly   *)
(* as the Python str it stands for; a line list is a sequence of texts.    *)
(* Every regular expression of the source is modelled by an operator that  *)
(* computes what re.match / re.findall / re.sub computes on such a text.   *)
(***************************************************************************)
EXTENDS Integers, Sequences, FiniteSets, TLC

VARIABLES
    original_content,   \* self.original_content
    lines,              \* self.lines
    source_path,        \* self.source_path
    content,            \* the parameter `content` of remove_noise / the local
                        \* `content` of optimize() when it returns
    normalized_content, \* optimize(): `content` after step 1
    cleaned_content,    \* optimize(): `content` after step 2
    frontmatter,        \* optimize(): the local `frontmatter`
    prev_frontmatter,   \* `frontmatter` of the optimize() call before (history)
    ret,                \* the value the last completed call returned
    prev,               \* the text the last completed call worked on (history)
    pc,                 \* position of the caller
    calls               \* number of completed calls of the method under study

vars == <<original_content, lines, source_path, content, normalized_content,
          cleaned_content, frontmatter, prev_frontmatter, ret, prev, pc, calls>>

(***************************************************************************)
(* Characters and character classes                                        *)
(***************************************************************************)
NL == "\n"

UpperLetters == <<"A","B","C","D","E","F","G","H","I","J","K","L","M",
                  "N","O","P","Q","R","S","T","U","V","W","X","Y","Z">>

LowerLetters == <<"a","b","c","d","e","f","g","h","i","j","k","l","m",
                  "n","o","p","q","r","s","t","u","v","w","x","y","z">>

Digits == <<"0","1","2","3","4","5","6","7","8","9">>

Range(f) == { f[i] : i \in DOMAIN f }

\* str.isspace / regex \s, on the characters the model uses
SpaceChars == {" ", "\t", "\n", "\r"}

IsSpace(c) == c \in SpaceChars

IsUpper(c) == c \in Range(UpperLetters)

IsLower(c) == c \in Range(LowerLetters)

IsDigit(c) == c \in Range(Digits)

\* regex \w
IsWord(c) == IsUpper(c) \/ IsLower(c) \/ IsDigit(c) \/ c = "_"

\* str.lower() on one character
LowerChar(c) ==
    IF IsUpper(c)
    THEN LowerLetters[CHOOSE i \in DOMAIN UpperLetters : UpperLetters[i] = c]
    ELSE c

\* str.lower()
Lower(s) == [i \in DOMAIN s |-> LowerChar(s[i])]

(***************************************************************************)
(* str helpers                                                             *)
(***************************************************************************)
\* s[a..b] with Python's empty result when the range is empty
Slice(s, a, b) == IF a > b THEN <<>> ELSE SubSeq(s, a, b)

\* the indices in the set idx, in increasing order
Ascending(idx) ==
    [k \in 1..Cardinality(idx) |->
        CHOOSE i \in idx : Cardinality({ j \in idx : j <= i }) = k]

\* str.split('\n'): the pieces between the newlines, always at least one
SplitLines(s) ==
    LET cuts == <<0>> \o Ascending({ i \in DOMAIN s : s[i] = NL }) \o <<Len(s) + 1>>
    IN  [k \in 1..(Len(cuts) - 1) |-> Slice(s, cuts[k] + 1, cuts[k+1] - 1)]

\* '\n'.join(ls)
RECURSIVE JoinFrom(_, _, _)
JoinFrom(ls, i, acc) ==
    IF i > Len(ls) THEN acc
    ELSE JoinFrom(ls, i + 1, IF i = 1 THEN ls[1] ELSE acc \o <<NL>> \o ls[i])

JoinLines(ls) == JoinFrom(ls, 1, <<>>)

\* the least index of s whose character is not in the set cs, Len(s) + 1 if none
FirstOutside(s, cs) ==
    IF \A i \in DOMAIN s : s[i] \in cs THEN Len(s) + 1
    ELSE CHOOSE i \in DOMAIN s : s[i] \notin cs /\ \A j \in 1..(i-1) : s[j] \in cs

\* the greatest index of s whose character is not in the set cs, 0 if none
LastOutside(s, cs) ==
    IF \A i \in DOMAIN s : s[i] \in cs THEN 0
    ELSE CHOOSE i \in DOMAIN s : s[i] \notin cs /\ \A j \in (i+1)..Len(s) : s[j] \in cs

\* number of leading characters of s that are in cs
LeadingCount(s, cs) == FirstOutside(s, cs) - 1

\* str.strip()
Strip(s) == Slice(s, FirstOutside(s, SpaceChars), LastOutside(s, SpaceChars))

\* str.lstrip('\n')
LStripNewlines(s) == Slice(s, FirstOutside(s, {NL}), Len(s))

\* str.startswith(p)
StartsWith(s, p) == Len(s) >= Len(p) /\ SubSeq(s, 1, Len(p)) = p

\* str.find(p, from): the least index >= from where p occurs in s, 0 if none
\* (indices are 1-based here)
Find(s, p, from) ==
    LET hits == { i \in from..(Len(s) - Len(p) + 1) : SubSeq(s, i, i + Len(p) - 1) = p }
    IN  IF hits = {} THEN 0 ELSE CHOOSE i \in hits : \A j \in hits : i <= j

\* `p in s`
Contains(s, p) == Find(s, p, 1) # 0

(***************************************************************************)
(* extract_headings: re.match(r'^(#{1,6})\s+(.+)$', line)                  *)
(***************************************************************************)
\* len(match.group(1)), or 0 when the line does not match.  The hash run is
\* greedy and must be followed by white space, so only a run of 1..6 hashes
\* directly followed by \s can match; \s+ gives back its last character to
\* (.+) when nothing else follows.
HeadingLevel(line) ==
    LET h == LeadingCount(line, {"#"})
        rest == Slice(line, h + 1, Len(line))
        w == LeadingCount(rest, SpaceChars)
    IN  IF h >= 1 /\ h <= 6 /\ w >= 1 /\ (Len(rest) > w \/ w >= 2) THEN h ELSE 0

\* match.group(2) of a line that matches
HeadingGroup2(line) ==
    LET h == LeadingCount(line, {"#"})
        rest == Slice(line, h + 1, Len(line))
        w == LeadingCount(rest, SpaceChars)
    IN  IF Len(rest) > w THEN Slice(rest, w + 1, Len(rest))
        ELSE <<rest[Len(rest)]>>

\* the list of {'level', 'text', 'line'} records of the lines ls; 'line' is the
\* 0-based index as in the source
RECURSIVE HeadingsFrom(_, _, _)
HeadingsFrom(ls, i, headings) ==
    IF i > Len(ls) THEN headings
    ELSE HeadingsFrom(ls, i + 1,
             IF HeadingLevel(ls[i]) # 0
             THEN Append(headings, [level |-> HeadingLevel(ls[i]),
                                    text  |-> Strip(HeadingGroup2(ls[i])),
                                    line  |-> i - 1])
             ELSE headings)

extract_headings(ls) == HeadingsFrom(ls, 1, <<>>)

(***************************************************************************)
(* normalize_heading_hierarchy                                             *)
(***************************************************************************)
\* '#' * n
Hashes(n) == [i \in 1..n |-> "#"]

\* mutant: the clamp is off by one (expected_level + 2)
AdjustedLevelOffByOne(current_level, expected_level) ==
    IF current_level > expected_level + 1 THEN expected_level + 2 ELSE current_level

\* mutant: a heading that returns shallower is held at the level reached
AdjustedLevelHeld(current_level, expected_level) ==
    IF current_level > expected_level + 1 THEN expected_level + 1
    ELSE IF current_level < expected_level THEN expected_level
    ELSE current_level

\* the level the loop of lines 57-66 assigns to a heading of raw level
\* current_level when expected_level is the level given to the previous one
AdjustedLevel(current_level, expected_level) ==
    IF current_level > expected_level + 1 THEN expected_level + 1 ELSE current_level

\* adjustments, as the sequence of new levels in heading order
RECURSIVE AdjustFrom(_, _, _, _)
AdjustFrom(headings, i, expected_level, adj) ==
    IF i > Len(headings) THEN adj
    ELSE LET new_level == AdjustedLevel(headings[i].level, expected_level)
         IN  AdjustFrom(headings, i + 1, new_level, Append(adj, new_level))

Adjustments(headings) == AdjustFrom(headings, 1, 1, <<>>)

\* mutant: the separating space is forgotten
RewriteHeadingNoSpace(old_line, new_level) ==
    IF HeadingLevel(old_line) # 0
    THEN Hashes(new_level) \o HeadingGroup2(old_line)
    ELSE old_line

\* lines 68-74: the rewritten line
RewriteHeading(old_line, new_level) ==
    IF HeadingLevel(old_line) # 0
    THEN Hashes(new_level) \o <<" ">> \o HeadingGroup2(old_line)
    ELSE old_line

\* the returned text, for self.original_content = text and self.lines = ls
normalize_heading_hierarchy(text, ls) ==
    LET headings == extract_headings(ls)
        adj == Adjustments(headings)
        split == SplitLines(text)
        new_lines == [n \in DOMAIN split |->
                        IF \E k \in DOMAIN headings : headings[k].line = n - 1
                        THEN RewriteHeading(split[n],
                                 adj[CHOOSE k \in DOMAIN headings : headings[k].line = n - 1])
                        ELSE split[n]]
    IN  IF headings = <<>> THEN text ELSE JoinLines(new_lines)

(***************************************************************************)
(* remove_noise                                                            *)
(***************************************************************************)
Dashes3 == <<"-","-","-">>

\* re.match(r'^\s*---+\s*$', line) or re.match(r'^\s*\*\*\*+\s*$', line):
\* between optional white space, three or more of the one rule character
IsNoise(line) ==
    LET t == Strip(line)
    IN  /\ Len(t) >= 3
        /\ \/ \A i \in DOMAIN t : t[i] = "-"
           \/ \A i \in DOMAIN t : t[i] = "*"

\* line 181: line.strip() == '---'
IsDelimiter(line) == Strip(line) = Dashes3

\* mutant: only the second delimiter is exempt (== for <=)
ExemptSecondOnly(frontmatter_count) == frontmatter_count = 2

\* mutant: only the first delimiter is exempt (< for <=)
ExemptFirstOnly(frontmatter_count) == frontmatter_count < 2

\* line 183: the delimiter lines that are exempt, by their running count
ExemptDelimiter(frontmatter_count) == frontmatter_count <= 2

\* mutant: the previous kept line is compared with '' instead of being stripped
IsExcessBlankExact(line, cleaned) ==
    /\ Strip(line) = <<>>
    /\ cleaned # <<>>
    /\ cleaned[Len(cleaned)] = <<>>

\* lines 195-197: a blank line that follows a blank line already kept
IsExcessBlank(line, cleaned) ==
    /\ Strip(line) = <<>>
    /\ cleaned # <<>>
    /\ Strip(cleaned[Len(cleaned)]) = <<>>

\* one iteration of the loop of lines 179-199 on the line at 1-based index n.
\* st.kept records the indices of the input lines appended to cleaned.
NoiseStep(st, line, n) ==
    LET count == IF IsDelimiter(line) THEN st.frontmatter_count + 1
                 ELSE st.frontmatter_count
        appended == [st EXCEPT !.cleaned = Append(@, line),
                               !.kept = @ \cup {n},
                               !.frontmatter_count = count]
        skipped == [st EXCEPT !.frontmatter_count = count]
    IN  IF IsDelimiter(line) /\ ExemptDelimiter(count)
        THEN [appended EXCEPT !.in_frontmatter = ~@]
        ELSE IF ~st.in_frontmatter /\ IsNoise(line) THEN skipped
        ELSE IF IsExcessBlank(line, st.cleaned) THEN skipped
        ELSE appended

\* the state of the loop after all the lines ls
RECURSIVE NoiseFrom(_, _, _)
NoiseFrom(ls, i, st) ==
    IF i > Len(ls) THEN st ELSE NoiseFrom(ls, i + 1, NoiseStep(st, ls[i], i))

NoiseScan(ls) ==
    NoiseFrom(ls, 1, [cleaned |-> <<>>, kept |-> {}, in_frontmatter |-> FALSE,
                      frontmatter_count |-> 0])

\* the returned text
remove_noise(text) == JoinLines(NoiseScan(SplitLines(text)).cleaned)

(***************************************************************************)
(* generate_toc                                                            *)
(***************************************************************************)
\* re.sub(r'[^\w\s-]', '', anchor)
KeepAnchorChars(t) == SelectSeq(t, LAMBDA c : IsWord(c) \/ IsSpace(c) \/ c = "-")

\* re.sub(r'[-\s]+', '-', anchor): every maximal run of hyphens and white
\* space becomes one hyphen
RECURSIVE HyphenateFrom(_, _, _)
HyphenateFrom(t, i, acc) ==
    IF i > Len(t) THEN acc
    ELSE IF t[i] = "-" \/ IsSpace(t[i])
         THEN HyphenateFrom(t, i + 1,
                  IF i > 1 /\ (t[i-1] = "-" \/ IsSpace(t[i-1])) THEN acc
                  ELSE Append(acc, "-"))
         ELSE HyphenateFrom(t, i + 1, Append(acc, t[i]))

\* lines 85-87
AnchorOf(text) == HyphenateFrom(KeepAnchorChars(Lower(text)), 1, <<>>)

\* the returned list, for self.lines = ls
generate_toc(ls) ==
    LET headings == extract_headings(ls)
    IN  [k \in DOMAIN headings |-> [level  |-> headings[k].level,
                                    text   |-> headings[k].text,
                                    anchor |-> AnchorOf(headings[k].text)]]

(***************************************************************************)
(* extract_key_concepts                                                    *)
(***************************************************************************)
\* the characters of the class of line 100; its backquote is left out, as no
\* text of the model holds one
MarkdownSyntax == {"#", "*", "_", "[", "]", "(", ")"}

\* line 100: re.sub(class, '', text)
StripSyntax(t) == SelectSeq(t, LAMBDA c : c \notin MarkdownSyntax)

\* \b before a word character at index i
WordStartsAt(t, i) == i = 1 \/ ~IsWord(t[i-1])

\* \b after a word character at index e
WordEndsAt(t, e) == e = Len(t) \/ ~IsWord(t[e+1])

\* the last index of the run of characters of cs that starts at i (i - 1 if
\* t[i] is not in cs)
RunEnd(t, i, cs) == i - 1 + LeadingCount(Slice(t, i, Len(t)), cs)

\* [A-Z][a-z]+ at index i: the index of its last character, 0 if no match
SegmentEnd(t, i) ==
    IF i + 1 <= Len(t) /\ IsUpper(t[i]) /\ IsLower(t[i+1])
    THEN RunEnd(t, i + 1, Range(LowerLetters)) ELSE 0

\* (?:[A-Z][a-z]+)* after index e, greedy: the index of the last character
RECURSIVE SegmentsEnd(_, _)
SegmentsEnd(t, e) ==
    IF SegmentEnd(t, e + 1) # 0 THEN SegmentsEnd(t, SegmentEnd(t, e + 1)) ELSE e

\* \b[A-Z][a-z]+(?:[A-Z][a-z]+)*\b at index i: the index of the last character
\* of the match, 0 if none.  Every shorter candidate ends before a letter, so
\* only the greedy one can end at a word boundary.
CamelEnd(t, i) ==
    IF WordStartsAt(t, i) /\ SegmentEnd(t, i) # 0
    THEN LET e == SegmentsEnd(t, SegmentEnd(t, i))
         IN  IF WordEndsAt(t, e) THEN e ELSE 0
    ELSE 0

\* \b[A-Z]{2,}\b at index i: the index of the last character, 0 if none
AcronymEnd(t, i) ==
    IF WordStartsAt(t, i) /\ IsUpper(t[i])
    THEN LET e == RunEnd(t, i, Range(UpperLetters))
         IN  IF e >= i + 1 /\ WordEndsAt(t, e) THEN e ELSE 0
    ELSE 0

MatchEnd(family, t, i) == IF family = "camel" THEN CamelEnd(t, i) ELSE AcronymEnd(t, i)

\* re.findall: the leftmost matches, not overlapping.  A match starts after a
\* character that is no word character and holds letters only, so no match
\* starts inside another and the scan finds every index where one starts.
FindAll(family, t) ==
    LET starts == Ascending({ i \in DOMAIN t : MatchEnd(family, t, i) # 0 })
    IN  [k \in DOMAIN starts |-> SubSeq(t, starts[k], MatchEnd(family, t, starts[k]))]

\* mutant: the acronyms are collected before the CamelCase words
ConceptWordsAcronymsFirst(text) ==
    FindAll("acronym", StripSyntax(text)) \o FindAll("camel", StripSyntax(text))

\* lines 100-102
ConceptWords(text) ==
    FindAll("camel", StripSyntax(text)) \o FindAll("acronym", StripSyntax(text))

\* the keys of Counter(words), in insertion order
RECURSIVE KeysFrom(_, _, _)
KeysFrom(words, i, keys) ==
    IF i > Len(words) THEN keys
    ELSE KeysFrom(words, i + 1,
             IF \E k \in DOMAIN keys : keys[k] = words[i] THEN keys
             ELSE Append(keys, words[i]))

CountOf(words, w) == Cardinality({ i \in DOMAIN words : words[i] = w })

\* Counter.most_common(n): by count, highest first, equal counts in insertion
\* order (a stable sort), cut to n
RECURSIVE MostCommonFrom(_, _, _, _)
MostCommonFrom(words, keys, n, ranked) ==
    IF keys = <<>> \/ Len(ranked) >= n THEN ranked
    ELSE LET best == CHOOSE k \in DOMAIN keys :
                        /\ \A j \in DOMAIN keys :
                              CountOf(words, keys[j]) <= CountOf(words, keys[k])
                        /\ \A j \in 1..(k-1) :
                              CountOf(words, keys[j]) < CountOf(words, keys[k])
         IN  MostCommonFrom(words,
                            SubSeq(keys, 1, best - 1) \o SubSeq(keys, best + 1, Len(keys)),
                            n, Append(ranked, keys[best]))

\* line 106
TopConcepts == 10

\* the returned list, for self.original_content = text
extract_key_concepts(text) ==
    MostCommonFrom(ConceptWords(text), KeysFrom(ConceptWords(text), 1, <<>>),
                   TopConcepts, <<>>)

(***************************************************************************)
(* estimate_tokens                                                         *)
(***************************************************************************)
\* line 110
CharsPerToken == 4

estimate_tokens(text) == Len(text) \div CharsPerToken

\* str(n) for n >= 0, as an f-string formats it
RECURSIVE Decimal(_)
Decimal(n) ==
    IF n < 10 THEN <<Digits[n + 1]>>
    ELSE Decimal(n \div 10) \o <<Digits[(n % 10) + 1]>>

(***************************************************************************)
(* identify_diagram_opportunities                                          *)
(***************************************************************************)
\* lines 118-121
process_indicators ==
    << <<"s","t","e","p"," ","1">>,
       <<"s","t","e","p"," ","2">>,
       <<"f","i","r","s","t">>,
       <<"t","h","e","n">>,
       <<"n","e","x","t">>,
       <<"f","i","n","a","l","l","y">>,
       <<"p","r","o","c","e","s","s",":">>,
       <<"w","o","r","k","f","l","o","w",":">>,
       <<"p","r","o","c","e","d","u","r","e",":">> >>

\* lines 124-127
relationship_indicators ==
    << <<"d","e","p","e","n","d","s"," ","o","n">>,
       <<"r","e","l","a","t","e","d"," ","t","o">>,
       <<"c","o","n","n","e","c","t","s"," ","t","o">>,
       <<"i","n","h","e","r","i","t","s"," ","f","r","o","m">>,
       <<"c","o","m","p","o","s","e","d"," ","o","f">>,
       <<"h","i","e","r","a","r","c","h","y">>,
       <<"r","e","l","a","t","i","o","n","s","h","i","p"," ","b","e","t","w","e","e","n">> >>

\* lines 130-133
architecture_indicators ==
    << <<"a","r","c","h","i","t","e","c","t","u","r","e">>,
       <<"c","o","m","p","o","n","e","n","t">>,
       <<"s","y","s","t","e","m"," ","d","e","s","i","g","n">>,
       <<"s","t","r","u","c","t","u","r","e">>,
       <<"m","o","d","u","l","e">>,
       <<"l","a","y","e","r">>,
       <<"i","n","t","e","r","f","a","c","e">> >>

\* any(ind in section_text for ind in indicators)
AnyIn(indicators, section_text) ==
    \E k \in DOMAIN indicators : Contains(section_text, indicators[k])

\* Python's None, where a diagram type is expected
NoType == "NoType"

\* Python's None, where a line number is expected
NoLine == -1

\* mutant: the architecture indicators are tested first
DiagramTypeArchitectureFirst(section_text) ==
    IF AnyIn(architecture_indicators, section_text) THEN "architecture"
    ELSE IF AnyIn(process_indicators, section_text) THEN "flowchart"
    ELSE IF AnyIn(relationship_indicators, section_text) THEN "graph"
    ELSE NoType

\* lines 148-154
DiagramType(section_text) ==
    IF AnyIn(process_indicators, section_text) THEN "flowchart"
    ELSE IF AnyIn(relationship_indicators, section_text) THEN "graph"
    ELSE IF AnyIn(architecture_indicators, section_text) THEN "architecture"
    ELSE NoType

\* lines 139-143: the 'line' of the first heading after section_start, or NoLine
NextHeadingLine(headings, section_start) ==
    IF \E k \in DOMAIN headings : headings[k].line > section_start
    THEN headings[CHOOSE k \in DOMAIN headings :
                    /\ headings[k].line > section_start
                    /\ \A j \in 1..(k-1) : headings[j].line <= section_start].line
    ELSE NoLine

\* line 145; a next_heading_line of 0 would be falsy as NoLine is
SectionEnd(next_heading_line, ls) ==
    IF next_heading_line # NoLine /\ next_heading_line # 0
    THEN next_heading_line ELSE Len(ls)

\* line 146: '\n'.join(self.lines[section_start:section_end]).lower()
SectionText(ls, section_start, section_end) ==
    Lower(JoinLines(Slice(ls, section_start + 1, section_end)))

RECURSIVE OpportunitiesFrom(_, _, _, _)
OpportunitiesFrom(ls, headings, k, opportunities) ==
    IF k > Len(headings) THEN opportunities
    ELSE LET section_start == headings[k].line
             section_end == SectionEnd(NextHeadingLine(headings, section_start), ls)
             diagram_type == DiagramType(SectionText(ls, section_start, section_end))
         IN  OpportunitiesFrom(ls, headings, k + 1,
                 IF diagram_type # NoType
                 THEN Append(opportunities, [heading |-> headings[k].text,
                                             type |-> diagram_type,
                                             line |-> section_start])
                 ELSE opportunities)

\* the returned list, for self.lines = ls
identify_diagram_opportunities(ls) ==
    OpportunitiesFrom(ls, extract_headings(ls), 1, <<>>)

(***************************************************************************)
(* The literal texts of generate_frontmatter and                            *)
(* identify_diagram_opportunities                                          *)
(***************************************************************************)
\* 'Untitled'
TEXT_Untitled == <<"U","n","t","i","t","l","e","d">>

\* 'title: "'
TEXT_title == <<"t","i","t","l","e",":"," ","\"">>

\* 'tokens: '
TEXT_tokens == <<"t","o","k","e","n","s",":"," ">>

\* 'optimized_for_llm: true'
TEXT_optimized == <<"o","p","t","i","m","i","z","e","d","_","f","o","r","_","l","l","m",":"," ","t","r","u","e">>

\* 'concepts:'
TEXT_concepts == <<"c","o","n","c","e","p","t","s",":">>

\* '  - '
TEXT_item == <<" "," ","-"," ">>

\* 'toc:'
TEXT_toc == <<"t","o","c",":">>

\* 'suggested_diagrams:'
TEXT_suggested_diagrams == <<"s","u","g","g","e","s","t","e","d","_","d","i","a","g","r","a","m","s",":">>

\* '  - section: "'
TEXT_section == <<" "," ","-"," ","s","e","c","t","i","o","n",":"," ","\"">>

\* '    type: '
TEXT_type == <<" "," "," "," ","t","y","p","e",":"," ">>

\* 'flowchart'
TEXT_flowchart == <<"f","l","o","w","c","h","a","r","t">>

\* 'graph'
TEXT_graph == <<"g","r","a","p","h">>

\* 'architecture'
TEXT_architecture == <<"a","r","c","h","i","t","e","c","t","u","r","e">>

(***************************************************************************)
(* generate_frontmatter                                                    *)
(***************************************************************************)
\* PurePosixPath(path).name: the last component that is neither empty nor '.'
RECURSIVE NameFrom(_, _, _, _)
NameFrom(path, i, name, cur) ==
    IF i > Len(path)
    THEN (IF cur = <<>> \/ cur = <<".">> THEN name ELSE cur)
    ELSE IF path[i] = "/"
         THEN NameFrom(path, i + 1,
                       IF cur = <<>> \/ cur = <<".">> THEN name ELSE cur, <<>>)
         ELSE NameFrom(path, i + 1, name, Append(cur, path[i]))

PathName(path) == NameFrom(path, 1, <<>>, <<>>)

\* PurePosixPath(path).stem: the name up to its last dot, unless that dot is
\* its first or its last character
Stem(path) ==
    LET name == PathName(path)
        dots == { i \in DOMAIN name : name[i] = "." }
        last == IF dots = {} THEN 0 ELSE CHOOSE i \in dots : \A j \in dots : j <= i
    IN  IF 1 < last /\ last < Len(name) THEN SubSeq(name, 1, last - 1) ELSE name

\* line 212
FallbackTitle(path) == IF path # <<>> THEN Stem(path) ELSE TEXT_Untitled

\* lines 211-212
TitleOf(headings, path) ==
    IF \E k \in DOMAIN headings : headings[k].level = 1
    THEN headings[CHOOSE k \in DOMAIN headings :
                    /\ headings[k].level = 1
                    /\ \A j \in 1..(k-1) : headings[j].level # 1].text
    ELSE FallbackTitle(path)

\* line 228
EmittedConcepts == 5

\* concepts[:5]
FirstConcepts(concepts) ==
    SubSeq(concepts, 1, IF Len(concepts) < EmittedConcepts THEN Len(concepts)
                        ELSE EmittedConcepts)

\* '  ' * n
Indent(n) == [i \in 1..(2 * n) |-> " "]

\* the characters of a diagram type
TypeText(type) ==
    IF type = "flowchart" THEN TEXT_flowchart
    ELSE IF type = "graph" THEN TEXT_graph
    ELSE TEXT_architecture

\* mutant: the section keys are written whether their lists are empty or not
ConceptLinesAlways(concepts) ==
    <<TEXT_concepts>> \o [k \in DOMAIN FirstConcepts(concepts) |->
                            TEXT_item \o FirstConcepts(concepts)[k]]

\* lines 226-229
ConceptLines(concepts) ==
    IF concepts # <<>>
    THEN <<TEXT_concepts>> \o [k \in DOMAIN FirstConcepts(concepts) |->
                                 TEXT_item \o FirstConcepts(concepts)[k]]
    ELSE <<>>

\* lines 232-237
TocLines(toc) ==
    IF toc # <<>>
    THEN <<TEXT_toc>> \o [k \in DOMAIN toc |->
                            Indent(toc[k].level - 1) \o <<"-", " ">> \o toc[k].text]
    ELSE <<>>

RECURSIVE DiagramLinesFrom(_, _, _)
DiagramLinesFrom(diagrams, k, acc) ==
    IF k > Len(diagrams) THEN acc
    ELSE DiagramLinesFrom(diagrams, k + 1,
             acc \o << TEXT_section \o diagrams[k].heading \o <<"\"">>,
                       TEXT_type \o TypeText(diagrams[k].type) >>)

\* lines 240-244
DiagramLines(diagrams) ==
    IF diagrams # <<>>
    THEN <<TEXT_suggested_diagrams>> \o DiagramLinesFrom(diagrams, 1, <<>>)
    ELSE <<>>

\* fm_lines, for self.original_content = text, self.lines = ls and
\* self.source_path = path
FrontmatterLines(text, ls, path) ==
    << Dashes3,
       TEXT_title \o TitleOf(extract_headings(ls), path) \o <<"\"">>,
       TEXT_tokens \o Decimal(estimate_tokens(text)),
       TEXT_optimized >>
    \o ConceptLines(extract_key_concepts(text))
    \o TocLines(generate_toc(ls))
    \o DiagramLines(identify_diagram_opportunities(ls))
    \o << Dashes3 >>

\* the returned text
generate_frontmatter(text, ls, path) == JoinLines(FrontmatterLines(text, ls, path))

(***************************************************************************)
(* optimize                                                                *)
(***************************************************************************)
\* lines 259-262: content.split('---', 2) cuts at the first two occurrences of
\* the three characters, wherever they are; parts[2] is what follows the second
StripFrontmatter(text) ==
    IF StartsWith(text, Dashes3) /\ Find(text, Dashes3, 4) # 0
    THEN LStripNewlines(Slice(text, Find(text, Dashes3, 4) + 3, Len(text)))
    ELSE text

\* line 270
Combine(fm, body) == fm \o <<NL, NL>> \o body

(***************************************************************************)
(* Lines and paths of the input vocabularies                               *)
(***************************************************************************)
\* "# T"
H1_T == <<"#"," ","T">>

\* "## M "
H2_M_ == <<"#","#"," ","M"," ">>

\* "####  D"
H4__D == <<"#","#","#","#"," "," ","D">>

\* "###### X"
H6_X == <<"#","#","#","#","#","#"," ","X">>

\* "#  "
H1__ == <<"#"," "," ">>

\* "####### n"
H7_n == <<"#","#","#","#","#","#","#"," ","n">>

\* "x"
x == <<"x">>

\* "  "
SP2 == <<" "," ">>

\* "--- "
Dashes3_ == <<"-","-","-"," ">>

\* "-----"
Dashes5 == <<"-","-","-","-","-">>

\* "***"
Stars3 == <<"*","*","*">>

\* "# A"
H1_A == <<"#"," ","A">>

\* "## Then"
H2_Then == <<"#","#"," ","T","h","e","n">>

\* "Next"
L_Next == <<"N","e","x","t">>

\* "a layer"
L_layer == <<"a"," ","l","a","y","e","r">>

\* "Hierarchy"
L_hierarchy == <<"H","i","e","r","a","r","c","h","y">>

\* "module related to"
L_module_related == <<"m","o","d","u","l","e"," ","r","e","l","a","t","e","d"," ","t","o">>

\* "k: a---b"
L_kv == <<"k",":"," ","a","-","-","-","b">>

\* "### Then"
H3_Then == <<"#","#","#"," ","T","h","e","n">>

\* "# a---b"
H1_ab == <<"#"," ","a","-","-","-","b">>

\* "d/n.md"
P_nested == <<"d","/","n",".","m","d">>

\* "n"
P_plain == <<"n">>

\* "Aa Bb Cc Dd Ee Ff"
L_camels == <<"A","a"," ","B","b"," ","C","c"," ","D","d"," ","E","e"," ","F","f">>

\* "AB CD EF GH IJ KL"
L_acronyms == <<"A","B"," ","C","D"," ","E","F"," ","G","H"," ","I","J"," ","K","L">>

\* "# KL Ff"
H1_KL_Ff == <<"#"," ","K","L"," ","F","f">>

\* "Aa_Bb KL KL"
L_joined == <<"A","a","_","B","b"," ","K","L"," ","K","L">>

(***************************************************************************)
(* Callers.  MarkdownOptimizer(text, path) sets the three fields; the      *)
(* documents are all the line lists of bounded length over a vocabulary.   *)
(***************************************************************************)
DocsOver(V, n) == { JoinLines(ls) : ls \in UNION { [1..k -> V] : k \in 0..n } }

\* __init__, with the caller's variables at rest
Construct(text, path) ==
    /\ original_content = text
    /\ lines = SplitLines(text)
    /\ source_path = path
    /\ content = <<>>
    /\ normalized_content = <<>>
    /\ cleaned_content = <<>>
    /\ frontmatter = <<>>
    /\ prev_frontmatter = <<>>
    /\ ret = <<>>
    /\ prev = <<>>
    /\ pc = "ready"
    /\ calls = 0

(***************************************************************************)
(* SpecNorm: one call of normalize_heading_hierarchy() on a fresh object   *)
(***************************************************************************)
MaxNormLines == 4

NormVocabulary ==
    { H1_T,     \* "# T"
      H2_M_,    \* "## M " (trailing space: the text is trimmed)
      H4__D,    \* "####  D" (two spaces)
      H6_X,     \* "###### X"
      H1__,     \* "#  " (the text is one space, trimmed to nothing)
      H7_n,     \* "####### n" (seven hashes: no heading)
      x }       \* "x"

InitNorm == \E d \in DocsOver(NormVocabulary, MaxNormLines) : Construct(d, <<>>)

CallNormalize ==
    /\ pc = "ready"
    /\ ret' = normalize_heading_hierarchy(original_content, lines)
    /\ pc' = "returned"
    /\ calls' = calls + 1
    /\ UNCHANGED <<original_content, lines, source_path, content,
                   normalized_content, cleaned_content, frontmatter,
                   prev_frontmatter, prev>>

NextNorm == CallNormalize

SpecNorm == InitNorm /\ [][NextNorm]_vars

(***************************************************************************)
(* SpecNoise: remove_noise(content) called on a document and then again on *)
(* what it returned                                                        *)
(***************************************************************************)
MaxNoiseLines == 4

MaxNoiseCalls == 2

NoiseVocabulary ==
    { <<>>,     \* ""
      SP2,      \* "  "
      Dashes3,  \* "---"
      Dashes3_, \* "--- "
      Dashes5,  \* "-----"
      Stars3,   \* "***"
      x }       \* "x"

InitNoise == \E d \in DocsOver(NoiseVocabulary, MaxNoiseLines) : Construct(d, <<>>)

CallRemoveNoise ==
    /\ pc \in {"ready", "returned"}
    /\ calls < MaxNoiseCalls
    /\ content' = IF calls = 0 THEN original_content ELSE ret
    /\ prev' = content'
    /\ ret' = remove_noise(content')
    /\ pc' = "returned"
    /\ calls' = calls + 1
    /\ UNCHANGED <<original_content, lines, source_path, normalized_content,
                   cleaned_content, frontmatter, prev_frontmatter>>

NextNoise == CallRemoveNoise

SpecNoise == InitNoise /\ [][NextNoise]_vars

(***************************************************************************)
(* SpecDiag: one call of identify_diagram_opportunities() on a fresh       *)
(* object                                                                  *)
(***************************************************************************)
MaxDiagLines == 4

DiagVocabulary ==
    { H1_A,              \* "# A"
      H2_Then,           \* "## Then" (a process indicator in the heading)
      L_Next,            \* "Next" (process)
      L_layer,           \* "a layer" (architecture)
      L_hierarchy,       \* "Hierarchy" (relationship)
      L_module_related,  \* "module related to" (architecture and relationship)
      x }                \* "x"

InitDiag == \E d \in DocsOver(DiagVocabulary, MaxDiagLines) : Construct(d, <<>>)

CallIdentify ==
    /\ pc = "ready"
    /\ ret' = identify_diagram_opportunities(lines)
    /\ pc' = "returned"
    /\ calls' = calls + 1
    /\ UNCHANGED <<original_content, lines, source_path, content,
                   normalized_content, cleaned_content, frontmatter,
                   prev_frontmatter, prev>>

NextDiag == CallIdentify

SpecDiag == InitDiag /\ [][NextDiag]_vars

(***************************************************************************)
(* SpecOpt: optimize() on a fresh object, then again on a fresh object     *)
(* built from what it returned (with the same source path)                 *)
(***************************************************************************)
MaxOptLines == 3

MaxOptRuns == 2

OptVocabulary ==
    { Dashes3,   \* "---"
      <<>>,      \* ""
      L_kv,      \* "k: a---b" (three dashes inside a line)
      H3_Then,   \* "### Then" (a level 3 heading, a concept, a process indicator)
      H1_ab,     \* "# a---b" (a level 1 heading with three dashes in its text)
      x }        \* "x"

OptPaths ==
    { <<>>,      \* no source path
      P_plain,   \* "n"
      P_nested } \* "d/n.md"

InitOpt ==
    \E d \in DocsOver(OptVocabulary, MaxOptLines) : \E path \in OptPaths : Construct(d, path)

\* optimize(), lines 250-272, with its locals kept in the variables
Optimize ==
    /\ pc = "ready"
    /\ normalized_content' = normalize_heading_hierarchy(original_content, lines)
    /\ cleaned_content' = remove_noise(normalized_content')
    /\ content' = StripFrontmatter(cleaned_content')
    /\ original_content' = content'
    /\ lines' = SplitLines(content')
    /\ frontmatter' = generate_frontmatter(original_content', lines', source_path)
    /\ ret' = Combine(frontmatter', content')
    /\ prev' = original_content
    /\ prev_frontmatter' = frontmatter
    /\ calls' = calls + 1
    /\ pc' = "done"
    /\ UNCHANGED source_path

\* MarkdownOptimizer(optimized, source_path): the output is given to a new
\* optimizer
Reconstruct ==
    /\ pc = "done"
    /\ calls < MaxOptRuns
    /\ original_content' = ret
    /\ lines' = SplitLines(ret)
    /\ pc' = "ready"
    /\ UNCHANGED <<source_path, content, normalized_content, cleaned_content,
                   frontmatter, prev_frontmatter, ret, prev, calls>>

NextOpt == Optimize \/ Reconstruct

SpecOpt == InitOpt /\ [][NextOpt]_vars

(***************************************************************************)
(* SpecConcepts: extract_key_concepts() and then generate_frontmatter() on *)
(* a fresh object                                                          *)
(***************************************************************************)
MaxConceptLines == 4

ConceptVocabulary ==
    { L_camels,    \* six CamelCase words
      L_acronyms,  \* six acronyms
      H1_KL_Ff,    \* a heading: an acronym before a CamelCase word
      L_joined,    \* "Aa_Bb" becomes the word "AaBb"; an acronym twice
      x }          \* no candidate

InitConcepts ==
    \E d \in DocsOver(ConceptVocabulary, MaxConceptLines) : Construct(d, <<>>)

\* extract_key_concepts(), lines 97-106
CallExtractKeyConcepts ==
    /\ pc = "ready"
    /\ ret' = extract_key_concepts(original_content)
    /\ pc' = "extracted"
    /\ calls' = calls + 1
    /\ UNCHANGED <<original_content, lines, source_path, content,
                   normalized_content, cleaned_content, frontmatter,
                   prev_frontmatter, prev>>

\* generate_frontmatter(), lines 203-248
CallGenerateFrontmatter ==
    /\ pc = "extracted"
    /\ frontmatter' = generate_frontmatter(original_content, lines, source_path)
    /\ pc' = "generated"
    /\ calls' = calls + 1
    /\ UNCHANGED <<original_content, lines, source_path, content,
                   normalized_content, cleaned_content, prev_frontmatter,
                   ret, prev>>

NextConcepts == CallExtractKeyConcepts \/ CallGenerateFrontmatter

SpecConcepts == InitConcepts /\ [][NextConcepts]_vars

(***************************************************************************)
(* Claims about normalize_heading_hierarchy (SpecNorm)                     *)
(***************************************************************************)
\* C1: after normalize_heading_hierarchy, the headings extracted from the
\* result never go more than one level deeper from one heading to the next:
\* level[i+1] <= level[i] + 1 for every adjacent pair.
C1_NoLevelJump ==
    pc = "returned" =>
        LET hs == extract_headings(SplitLines(ret))
        IN  \A i \in 1..(Len(hs) - 1) : hs[i+1].level <= hs[i].level + 1

\* a returned document whose input had a jump of more than one level
C1_Witness ==
    /\ pc = "returned"
    /\ LET hs == extract_headings(lines)
       IN  \E i \in 1..(Len(hs) - 1) : hs[i+1].level > hs[i].level + 1
    /\ ret # original_content

\* C2: normalize_heading_hierarchy keeps the number, the order and the trimmed
\* texts of the headings (at the same line indices), and every line that is
\* not a heading is the same line at the same index of the output.
C2_TextsAndOtherLinesKept ==
    pc = "returned" =>
        LET inl == SplitLines(original_content)
            outl == SplitLines(ret)
            hin == extract_headings(inl)
            hout == extract_headings(outl)
        IN  /\ Len(outl) = Len(inl)
            /\ Len(hout) = Len(hin)
            /\ \A k \in DOMAIN hin :
                  k \in DOMAIN hout /\ hout[k].text = hin[k].text
                                    /\ hout[k].line = hin[k].line
            /\ \A n \in DOMAIN inl :
                  HeadingLevel(inl[n]) = 0 => n \in DOMAIN outl /\ outl[n] = inl[n]

\* a returned document with rewritten headings, two or more of them, and a
\* line that is not a heading
C2_Witness ==
    /\ pc = "returned"
    /\ ret # original_content
    /\ Len(extract_headings(lines)) >= 2
    /\ \E n \in DOMAIN lines : HeadingLevel(lines[n]) = 0

\* the level read from line n (1-based) of the returned text
ReturnedLevel(n) == HeadingLevel(SplitLines(ret)[n])

\* the level the k-th heading of the input has in the returned text
NewLevel(k) == ReturnedLevel(extract_headings(lines)[k].line + 1)

\* expected_level when the k-th heading is reached: 1 at the first heading,
\* then the new level of the heading before
ExpectedAt(k) == IF k = 1 THEN 1 ELSE NewLevel(k - 1)

\* C11: the new level of every heading follows the recurrence: with
\* expected_level 1 at the first heading and the previous heading's new level
\* afterwards, a raw level above expected_level + 1 becomes expected_level + 1
\* and any other raw level is kept as it is (never lowered, never raised);
\* "# T" followed by "####  D" gives the levels 1 then 2.
C11_LevelsFollowRecurrence ==
    pc = "returned" =>
        LET hin == extract_headings(lines)
        IN  /\ \A k \in DOMAIN hin :
                  NewLevel(k) = IF hin[k].level > ExpectedAt(k) + 1
                                THEN ExpectedAt(k) + 1
                                ELSE hin[k].level
            /\ (Len(lines) >= 2 /\ lines[1] = H1_T /\ lines[2] = H4__D)
                  => ReturnedLevel(1) = 1 /\ ReturnedLevel(2) = 2

\* a returned document that starts "# T", "####  D" (4 clamped to 2), where a
\* later heading is clamped again and the last one returns shallower
C11_Witness ==
    /\ pc = "returned"
    /\ Len(lines) >= 4
    /\ lines[1] = H1_T /\ lines[2] = H4__D
    /\ ReturnedLevel(1) = 1 /\ ReturnedLevel(2) = 2
    /\ LET hin == extract_headings(lines)
       IN  /\ Len(hin) = 4
           /\ hin[3].level > ExpectedAt(3) + 1
           /\ hin[4].level < ExpectedAt(4) /\ NewLevel(4) = hin[4].level

(***************************************************************************)
(* Claims about remove_noise (SpecNoise)                                   *)
(***************************************************************************)
DelimiterLines(ls) == SelectSeq(ls, IsDelimiter)

IsBlank(line) == \A i \in DOMAIN line : IsSpace(line[i])

\* the lines of ls at the indices in the set idx, in order
LinesAt(ls, idx) ==
    LET pos == SelectSeq([i \in DOMAIN ls |-> i], LAMBDA i : i \in idx)
    IN  [k \in DOMAIN pos |-> ls[pos[k]]]

\* C3: remove_noise keeps the first two `---` lines (a line whose stripped
\* text is `---`, the test of line 181) although they match the rule pattern,
\* and removes every `---` line after the second.
C3_FirstTwoDelimitersKept ==
    (pc = "returned" /\ calls >= 1) =>
        LET din == DelimiterLines(SplitLines(prev))
            dout == DelimiterLines(SplitLines(ret))
        IN  /\ \A i \in DOMAIN din : IsNoise(din[i])
            /\ dout = SubSeq(din, 1, IF Len(din) < 2 THEN Len(din) ELSE 2)

\* the first call returned for a document that opens with `---` and has
\* three or more `---` lines
C3_Witness ==
    /\ pc = "returned" /\ calls = 1
    /\ SplitLines(prev)[1] = Dashes3
    /\ Len(DelimiterLines(SplitLines(prev))) >= 3
    /\ Len(DelimiterLines(SplitLines(ret))) = 2

\* C5: remove_noise is idempotent: calling it on what it returned returns
\* the same text.
C5_Idempotent ==
    (pc = "returned" /\ calls >= 2) => ret = prev

\* the second call returned, the first call having changed a document that
\* holds delimiter lines, a longer rule line and a run of blank lines
C5_Witness ==
    /\ pc = "returned" /\ calls = 2
    /\ prev # original_content
    /\ Len(DelimiterLines(lines)) >= 1
    /\ \E n \in DOMAIN lines : IsNoise(lines[n]) /\ ~IsDelimiter(lines[n])
    /\ \E n \in 1..(Len(lines) - 1) : IsBlank(lines[n]) /\ IsBlank(lines[n+1])

\* C6: the output of remove_noise has no two consecutive blank lines, and
\* every run of blank lines of the input (blank lines with nothing kept
\* between them but other blank lines, so also across a removed rule line) is
\* left with exactly one blank line.
C6_BlankRunsCollapsed ==
    (pc = "returned" /\ calls >= 1) =>
        LET inl == SplitLines(prev)
            outl == SplitLines(ret)
            kept == NoiseScan(inl).kept
            SameRun(i, j) ==
                \A m \in DOMAIN inl :
                    ((i < m /\ m < j) \/ (j < m /\ m < i)) =>
                        (IsBlank(inl[m]) \/ m \notin kept)
        IN  /\ ret = JoinLines(LinesAt(inl, kept))
            /\ \A n \in 1..(Len(outl) - 1) : ~(IsBlank(outl[n]) /\ IsBlank(outl[n+1]))
            /\ \A i \in DOMAIN inl :
                  IsBlank(inl[i]) =>
                      Cardinality({ j \in kept : IsBlank(inl[j]) /\ SameRun(i, j) }) = 1

\* a call returned for a document where two blank lines, a rule line that is
\* removed and another blank line follow each other, leaving one blank line
C6_Witness ==
    /\ pc = "returned" /\ calls = 1
    /\ LET inl == SplitLines(prev)
       IN  \E n \in 1..(Len(inl) - 3) :
              /\ IsBlank(inl[n]) /\ IsBlank(inl[n+1]) /\ IsBlank(inl[n+3])
              /\ IsNoise(inl[n+2]) /\ n + 2 \notin NoiseScan(inl).kept
    /\ Cardinality({ n \in DOMAIN SplitLines(ret) : IsBlank(SplitLines(ret)[n]) }) = 1

(***************************************************************************)
(* Claims about identify_diagram_opportunities (SpecDiag)                  *)
(***************************************************************************)
\* the 1-based indices of the heading lines of ls
HeadingIndices(ls) == { n \in DOMAIN ls : HeadingLevel(ls[n]) # 0 }

\* the section of the heading at index n: its line and the lines after it up
\* to the next heading line or the end
SectionOf(ls, n) ==
    { m \in n..Len(ls) : \A j \in (n+1)..m : j \notin HeadingIndices(ls) }

\* some line of the section holds, in lower case, one of the indicators
SectionHas(ls, n, indicators) ==
    \E m \in SectionOf(ls, n) : \E k \in DOMAIN indicators :
        Contains(Lower(ls[m]), indicators[k])

\* the type the priority process > relationship > architecture gives
PriorityType(ls, n) ==
    IF SectionHas(ls, n, process_indicators) THEN "flowchart"
    ELSE IF SectionHas(ls, n, relationship_indicators) THEN "graph"
    ELSE IF SectionHas(ls, n, architecture_indicators) THEN "architecture"
    ELSE NoType

\* C9: identify_diagram_opportunities returns at most one entry per heading
\* section, in heading order; an entry's type is flowchart if the section has
\* a process indicator, else graph if it has a relationship indicator, else
\* architecture if it has an architecture indicator; a section with none has
\* no entry, and text before the first heading is never classified.
C9_OneTypePerSectionByPriority ==
    pc = "returned" =>
        /\ \A i \in DOMAIN ret : \A j \in DOMAIN ret : i < j => ret[i].line < ret[j].line
        /\ \A i \in DOMAIN ret :
              /\ ret[i].line + 1 \in HeadingIndices(lines)
              /\ ret[i].type = PriorityType(lines, ret[i].line + 1)
              /\ ret[i].type \in {"flowchart", "graph", "architecture"}
              /\ ret[i].heading = Strip(HeadingGroup2(lines[ret[i].line + 1]))
        /\ \A n \in HeadingIndices(lines) :
              PriorityType(lines, n) # NoType => \E i \in DOMAIN ret : ret[i].line = n - 1

\* a returned list for a document whose text before the first heading holds
\* an indicator, with a flowchart section that also holds an architecture
\* indicator
C9_Witness ==
    /\ pc = "returned"
    /\ HeadingLevel(lines[1]) = 0
    /\ AnyIn(process_indicators, Lower(lines[1]))
    /\ \E i \in DOMAIN ret :
          /\ ret[i].type = "flowchart"
          /\ SectionHas(lines, ret[i].line + 1, architecture_indicators)
          /\ ret[i].line = 1

(***************************************************************************)
(* Claims about optimize (SpecOpt)                                         *)
(***************************************************************************)
\* the indices of the delimiter lines of ls, in order
DelimiterIndices(ls) == Ascending({ n \in DOMAIN ls : IsDelimiter(ls[n]) })

\* ls opens a front-matter block: its first line is `---` and a later line
\* closes the block
OpensBlock(ls) == ls[1] = Dashes3 /\ Len(DelimiterIndices(ls)) >= 2

\* the lines strictly between the opening and the closing delimiter line
Region(ls) ==
    Slice(ls, DelimiterIndices(ls)[1] + 1, DelimiterIndices(ls)[2] - 1)

\* the lines after the closing delimiter line
AfterBlock(ls) == Slice(ls, DelimiterIndices(ls)[2] + 1, Len(ls))

\* C4: the front-matter region of a document, the lines strictly between its
\* opening and its closing `---` line, is the same after
\* normalize_heading_hierarchy and remove_noise as before.
C4_RegionNeverAltered ==
    (pc = "done" /\ OpensBlock(SplitLines(prev))) =>
        /\ OpensBlock(SplitLines(cleaned_content))
        /\ Region(SplitLines(cleaned_content)) = Region(SplitLines(prev))

\* C7: when optimize() runs on its own output, no line of the block the
\* first run generated is left in the body of the second output, which holds
\* one generated block only.
C7_RerunDiscardsFirstBlock ==
    (pc = "done" /\ calls = 2) =>
        /\ \A i \in DOMAIN SplitLines(prev_frontmatter) :
              \A j \in DOMAIN SplitLines(content) :
                  SplitLines(content)[j] # SplitLines(prev_frontmatter)[i]
        /\ Cardinality({ j \in DOMAIN SplitLines(ret) :
                            SplitLines(ret)[j] = TEXT_optimized }) = 1

\* C8: when the cleaned text opens a front-matter block, the body optimize()
\* keeps is exactly the cleaned text after the closing delimiter line (less
\* its leading newlines): nothing of the old block, nothing lost.
C8_OldBlockDiscarded ==
    (pc = "done" /\ OpensBlock(SplitLines(cleaned_content))) =>
        content = LStripNewlines(JoinLines(AfterBlock(SplitLines(cleaned_content))))

\* the line of the front-matter a key opens is followed by an item of its list
KeyHasItems(fm, key) ==
    \A i \in DOMAIN fm :
        fm[i] = key => i < Len(fm) /\ StartsWith(Strip(fm[i+1]), <<"-", " ">>)

\* the three conditional sections are written iff their lists are not empty,
\* and never as a key without items
SectionsIffNonEmpty ==
    LET fm == SplitLines(frontmatter)
    IN  /\ TEXT_toc \in Range(fm) <=> HeadingIndices(lines) # {}
        /\ TEXT_suggested_diagrams \in Range(fm)
              <=> identify_diagram_opportunities(lines) # <<>>
        /\ TEXT_concepts \in Range(fm) <=> ConceptWords(original_content) # <<>>
        /\ HeadingIndices(lines) = {} => TEXT_suggested_diagrams \notin Range(fm)
        /\ KeyHasItems(fm, TEXT_toc)
        /\ KeyHasItems(fm, TEXT_suggested_diagrams)
        /\ KeyHasItems(fm, TEXT_concepts)

\* C10 as stated: with no headings the title is the supplied identifier itself
\* (Untitled without one), and the sections are written iff not empty.
C10_TitleIsIdentifier ==
    pc = "done" =>
        /\ SectionsIffNonEmpty
        /\ HeadingIndices(lines) = {} =>
              SplitLines(frontmatter)[2] =
                  TEXT_title \o (IF source_path = <<>> THEN TEXT_Untitled ELSE source_path)
                             \o <<"\"">>

\* C10, amended: with no headings optimize() writes no toc and no
\* suggested_diagrams field and the title is the stem of the supplied
\* identifier, its last path component without its final suffix (Untitled
\* without an identifier); each of concepts, toc and suggested_diagrams is
\* written iff its list is not empty, never as an empty key.
C10_TitleIsStemOfIdentifier ==
    pc = "done" =>
        /\ SectionsIffNonEmpty
        /\ HeadingIndices(lines) = {} =>
              SplitLines(frontmatter)[2] =
                  TEXT_title \o (IF source_path = <<>> THEN TEXT_Untitled
                                 ELSE Stem(source_path))
                             \o <<"\"">>

\* optimize() returned for a document without headings and without
\* concepts, given the identifier "d/n.md": the title is "n" and the block
\* holds the three fixed fields only
C10_Witness ==
    /\ pc = "done"
    /\ HeadingIndices(lines) = {}
    /\ ConceptWords(original_content) = <<>>
    /\ source_path = P_nested
    /\ Len(SplitLines(frontmatter)) = 5
    /\ SplitLines(frontmatter)[2] = TEXT_title \o <<"n", "\"">>

(***************************************************************************)
(* Claims about the separator optimize() writes (SpecOpt)                  *)
(***************************************************************************)
\* the number of lines the generated front-matter block takes in the output
BlockLength == Len(SplitLines(frontmatter))

\* the lines of the output that follow the generated block
AfterGenerated ==
    LET out == SplitLines(ret)
    IN  Slice(out, BlockLength + 1, Len(out))

\* C12: in the output of optimize() the generated front-matter block is
\* followed by exactly one blank line and then the body: the line after the
\* block is empty and, when the body is not empty, the line after that one
\* (the body's first line) is not blank.
C12_OneBlankLineSeparator ==
    pc = "done" =>
        /\ StartsWith(ret, frontmatter \o <<NL>>)
        /\ Len(AfterGenerated) >= 2
        /\ AfterGenerated[1] = <<>>
        /\ content # <<>> => ~IsBlank(AfterGenerated[2])

(***************************************************************************)
(* Claims about the concept ranking (SpecConcepts)                         *)
(***************************************************************************)
Families == {"camel", "acronym"}

\* the candidates found in the text t, each with its family and the place
\* where it starts
OccurrencesIn(t) ==
    { [family |-> o[1], start |-> o[2],
       token |-> SubSeq(t, o[2], MatchEnd(o[1], t, o[2]))] :
          o \in { c \in Families \X DOMAIN t : MatchEnd(c[1], t, c[2]) # 0 } }

\* where the candidate w first appears in the document
FirstStart(occ, w) ==
    CHOOSE i \in { o.start : o \in occ } :
        /\ \E o \in occ : o.token = w /\ o.start = i
        /\ \A o \in occ : o.token = w => o.start >= i

\* for every distinct candidate of both families: how often it occurs (both
\* families together), where it first appears in the document, and where it
\* first appears in the list of matches, which holds the CamelCase matches in
\* document order and after them the acronyms
TableOf(t, occ) ==
    { [token    |-> w,
       count    |-> Cardinality({ o \in occ : o.token = w }),
       document |-> FirstStart(occ, w),
       matches  |-> IF \E o \in occ : o.token = w /\ o.family = "camel"
                    THEN FirstStart(occ, w) ELSE Len(t) + FirstStart(occ, w)] :
          w \in { o.token : o \in occ } }

\* the entry of the candidate w
EntryOf(table, w) == CHOOSE e \in table : e.token = w

\* the entry v is ranked before the entry w: by count, then by first
\* appearance in the given order
RankedBefore(order, v, w) ==
    \/ v.count > w.count
    \/ /\ v.count = w.count
       /\ IF order = "document" THEN v.document < w.document
          ELSE v.matches < w.matches

\* list is the first n entries of the ranking of all candidates
IsTopOfRanking(list, table, order, n) ==
    /\ \A i \in DOMAIN list : \E e \in table : e.token = list[i]
    /\ Len(list) = IF Cardinality(table) < n THEN Cardinality(table) ELSE n
    /\ \A i, j \in DOMAIN list :
          i < j => RankedBefore(order, EntryOf(table, list[i]), EntryOf(table, list[j]))
    /\ \A w \in table :
          (\A i \in DOMAIN list : list[i] # w.token) =>
              \A i \in DOMAIN list : RankedBefore(order, EntryOf(table, list[i]), w)

\* the items written under the concepts key of the front-matter lines fm
ItemsAfter(fm, k) ==
    LET n == CHOOSE m \in 0..(Len(fm) - k) :
                /\ \A i \in 1..m : StartsWith(fm[k + i], TEXT_item)
                /\ m < Len(fm) - k => ~StartsWith(fm[k + m + 1], TEXT_item)
    IN  [i \in 1..n |-> Slice(fm[k + i], Len(TEXT_item) + 1, Len(fm[k + i]))]

EmittedIn(fm) ==
    IF \E i \in DOMAIN fm : fm[i] = TEXT_concepts
    THEN ItemsAfter(fm, CHOOSE i \in DOMAIN fm : fm[i] = TEXT_concepts)
    ELSE <<>>

\* the returned list is the first 10 entries of the ranking in the given order
ReturnedIsTopTen(order) ==
    \A t \in {StripSyntax(original_content)} :
    \A occ \in {OccurrencesIn(t)} :
    \A table \in {TableOf(t, occ)} : IsTopOfRanking(ret, table, order, 10)

\* the emitted list is the first 5 entries of the returned list
EmittedIsFirstFive ==
    \A fm \in {SplitLines(frontmatter)} :
    \A emitted \in {EmittedIn(fm)} :
        /\ Len(emitted) <= 5
        /\ Len(emitted) = (IF Len(ret) < 5 THEN Len(ret) ELSE 5)
        /\ \A i \in DOMAIN emitted : emitted[i] = ret[i]

\* C13 as stated: extract_key_concepts returns the first 10 candidates of the
\* ranking by count over both families, highest first, ties in the order of
\* first appearance in the document; the emitted concepts are the first 5 of
\* them, never more than 5.
C13_TiesByDocumentOrder ==
    /\ pc \in {"extracted", "generated"} => ReturnedIsTopTen("document")
    /\ pc = "generated" => EmittedIsFirstFive

\* C13, amended: extract_key_concepts returns the first 10 candidates of the
\* ranking by count over both families, highest first, ties in the order of
\* first appearance in the list of matches (every CamelCase match, in document
\* order, before every acronym match, in document order); the emitted concepts
\* are the first 5 of them, never more than 5.
C13_TiesByMatchOrder ==
    /\ pc \in {"extracted", "generated"} => ReturnedIsTopTen("matches")
    /\ pc = "generated" => EmittedIsFirstFive

\* a generated front-matter for a document with more than 10 candidates, of
\* different counts, where an acronym that comes first in the document ties
\* with a CamelCase word: 10 are returned and 5 emitted
C13_Witness ==
    /\ pc = "generated"
    /\ Len(ret) = 10
    /\ Len(EmittedIn(SplitLines(frontmatter))) = 5
    /\ \E t \in {StripSyntax(original_content)} :
       \E occ \in {OccurrencesIn(t)} :
       \E table \in {TableOf(t, occ)} :
           /\ Cardinality(table) > 10
           /\ \E v, w \in table : v.count > w.count
           /\ \E i, j \in DOMAIN ret :
                 /\ i < j
                 /\ EntryOf(table, ret[i]).count = EntryOf(table, ret[j]).count
                 /\ EntryOf(table, ret[j]).document < EntryOf(table, ret[i]).document

====
